---------------------------- MODULE Spec2Model ----------------------------
(***************************************************************************)
(* A model of server.py, the MCP server for VOICEVOX text-to-speech.       *)
(*                                                                         *)
(* Two parts of the program are modelled:                                  *)
(*   - process start: ensure_engine_running() followed by mcp.run()        *)
(*     (specification StartupSpec);                                        *)
(*   - the three tool handlers list_speakers, save_audio and speak_text,   *)
(*     one invocation at a time, split at every interaction with the       *)
(*     outside world (HTTP request, file operation, subprocess)            *)
(*     (specification Spec).                                               *)
(*                                                                         *)
(* Real-valued voice parameters are held as integers in hundredths         *)
(* (0.5 is 50, -0.15 is -15).  Strings that the code takes apart (paths,   *)
(* the spoken text) are sequences of one-character strings.                *)
(***************************************************************************)
EXTENDS Integers, Sequences, FiniteSets, TLC

VARIABLES
    \* ---- process start -------------------------------------------------
    AUTO_START_ENGINE,  \* configuration flag, read once (line 20)
    gpc,                \* position of __main__ / ensure_engine_running
    i,                  \* loop index of the readiness loop (line 73)
    firstProbe,         \* response seen by the check of line 67
    lastProbe,          \* response seen by the latest is_engine_running()
    starts,             \* number of start_engine() calls
    startResult,        \* what start_engine() returned
    probes,             \* number of GET /version requests issued
    launches,           \* number of "docker compose up -d" subprocess calls
    sleeps,             \* number of time.sleep(1) calls
    log,                \* diagnostics printed to stderr, in order
    \* ---- tool handlers -------------------------------------------------
    tpc,                \* position of the running handler
    tool,               \* name of the handler of the current invocation
    args,               \* arguments after defaulting (lines 139-147)
    output_file,        \* save_audio: resolved path (lines 160-162)
    requests,           \* HTTP requests sent by the current invocation
    responses,          \* what came back for each of them, in order
    audio_query,        \* the query object held by the handler
    audio_data,         \* the synthesized payload held by the handler
    raised,             \* the exception raised inside the handler, if any
    raisedAt,           \* the operation that raised it
    result,             \* the string returned, or the escaped exception
    written,            \* files written by the current invocation
    dirs,               \* directories made by the current invocation
    tempFiles,          \* temporary playback files that exist on disk
    temp_path,          \* speak_text: the temporary file it created
    tmpSeq,             \* number of temporary files created so far
    players             \* subprocess.run(ffplay) calls of this invocation

startupVars == <<AUTO_START_ENGINE, gpc, i, firstProbe, lastProbe, probes,
                 starts, startResult, launches, sleeps, log>>
toolVars == <<tpc, tool, args, output_file, requests, responses, audio_query,
              audio_data, raised, raisedAt, result, written, dirs, tempFiles,
              temp_path, tmpSeq, players>>
vars == <<startupVars, toolVars>>

\* Optional[T]: None is the empty sequence, a value v is <<v>>.
None == <<>>
Some(v) == <<v>>

-----------------------------------------------------------------------------
(* Program constants *)

VOICEVOX_URL == "http://localhost:50021"
SPEAKER_ID == 8
PollLimit == 30
PreviewLen == 20

\* Voice parameter domains, in hundredths (lines 150-157).
SpeedMin == 50
SpeedMax == 200
PitchMin == -15
PitchMax == 15
IntonationMin == 0
IntonationMax == 200
VolumeMin == 0
VolumeMax == 200

-----------------------------------------------------------------------------
(* Bounds of the model *)

\* speak_text invocations that get as far as creating a temporary file.
MaxTemp == 2

-----------------------------------------------------------------------------
(* Exceptions.  An exception is a record [type, info]; info carries the    *)
(* HTTP status of an HTTPStatusError and the return code of a              *)
(* CalledProcessError, 0 otherwise.                                        *)

Exc(type, info) == [type |-> type, info |-> info]
NoExc == Exc("none", 0)

\* The direct base class of each exception class that occurs in the model
\* (httpx, subprocess and the builtins).
BaseOf(type) ==
    CASE type = "ConnectError"       -> "NetworkError"
      [] type = "NetworkError"       -> "TransportError"
      [] type = "ConnectTimeout"     -> "TimeoutException"
      [] type = "ReadTimeout"        -> "TimeoutException"
      [] type = "TimeoutException"   -> "TransportError"
      [] type = "TransportError"     -> "RequestError"
      [] type = "RequestError"       -> "HTTPError"
      [] type = "HTTPStatusError"    -> "HTTPError"
      [] type = "HTTPError"          -> "Exception"
      [] type = "PermissionError"    -> "OSError"
      [] type = "FileNotFoundError"  -> "OSError"
      [] type = "IsADirectoryError"  -> "OSError"
      [] type = "FileExistsError"    -> "OSError"
      [] type = "OSError"            -> "Exception"
      [] type = "CalledProcessError" -> "SubprocessError"
      [] type = "SubprocessError"    -> "Exception"
      [] type = "JSONDecodeError"    -> "ValueError"
      [] type = "ValueError"         -> "Exception"
      [] type = "TypeError"          -> "Exception"
      [] type = "KeyError"           -> "LookupError"
      [] type = "LookupError"        -> "Exception"
      [] OTHER                       -> "Exception"

RECURSIVE IsInstance(_, _)
\* isinstance(e, cls): the test an "except cls" clause makes.
IsInstance(type, cls) ==
    IF type = cls THEN TRUE
    ELSE IF type = "Exception" THEN FALSE
    ELSE IsInstance(BaseOf(type), cls)

-----------------------------------------------------------------------------
(* Process start *)

\* What GET /version can come back with (2 s timeout).
ProbeResponses == {"200", "503", "ConnectError", "ConnectTimeout"}

\* is_engine_running(): true only on HTTP 200; every exception is False.
is_engine_running(resp) == resp = "200"

\* What subprocess.run(["docker", "compose", "up", "-d"], check=True) can do.
LaunchOutcomes == {"exit0", "exit_nonzero", "FileNotFoundError",
                   "PermissionError"}

\* start_engine(): the value returned, "raise" when the exception is not
\* one of the two the function catches.
start_engine_result(composeExists, outcome) ==
    IF ~composeExists THEN [ret |-> "False", msg |-> <<"compose_not_found">>, ran |-> 0]
    ELSE CASE outcome = "exit0" ->
                [ret |-> "True", msg |-> <<>>, ran |-> 1]
           [] outcome = "exit_nonzero" ->
                [ret |-> "False", msg |-> <<"failed_to_start">>, ran |-> 1]
           [] outcome = "FileNotFoundError" ->
                [ret |-> "False", msg |-> <<"docker_not_found">>, ran |-> 1]
           [] OTHER ->
                [ret |-> "raise", msg |-> <<>>, ran |-> 1]

\* ensure_engine_running(), line 64: auto-start disabled.
EnsureDisabled ==
    /\ gpc = "start"
    /\ ~AUTO_START_ENGINE
    /\ gpc' = "returned"
    /\ UNCHANGED <<AUTO_START_ENGINE, i, firstProbe, lastProbe, probes, starts,
                   startResult, launches, sleeps, log,
                   toolVars>>

\* EnsureFirstProbe with the test of line 67 lost: the launcher is invoked
\* whatever the first check saw.
EnsureFirstProbeAlwaysLaunch ==
    /\ gpc = "start"
    /\ AUTO_START_ENGINE
    /\ \E resp \in ProbeResponses :
         /\ firstProbe' = resp
         /\ lastProbe' = resp
         /\ probes' = probes + 1
         /\ gpc' = "launch"
         /\ log' = Append(log, "not_running_starting")
    /\ UNCHANGED <<AUTO_START_ENGINE, i, starts, startResult, launches, sleeps,
                   toolVars>>

\* ensure_engine_running(), lines 67-70: the first availability check.
EnsureFirstProbe ==
    /\ gpc = "start"
    /\ AUTO_START_ENGINE
    /\ \E resp \in ProbeResponses :
         /\ firstProbe' = resp
         /\ lastProbe' = resp
         /\ probes' = probes + 1
         /\ IF is_engine_running(resp)
              THEN /\ gpc' = "returned"
                   /\ log' = log
              ELSE /\ gpc' = "launch"
                   /\ log' = Append(log, "not_running_starting")
    /\ UNCHANGED <<AUTO_START_ENGINE, i, starts, startResult, launches, sleeps,
                   toolVars>>

\* ensure_engine_running(), line 71: the call of start_engine().
EnsureStartEngine ==
    /\ gpc = "launch"
    /\ \E composeExists \in BOOLEAN, outcome \in LaunchOutcomes :
         LET r == start_engine_result(composeExists, outcome) IN
         /\ launches' = launches + r.ran
         /\ startResult' = r.ret
         /\ log' = log \o r.msg
         /\ gpc' = CASE r.ret = "True"  -> "wait"
                     [] r.ret = "False" -> "returned"
                     [] OTHER           -> "crashed"
    /\ starts' = starts + 1
    /\ i' = 0
    /\ UNCHANGED <<AUTO_START_ENGINE, firstProbe, lastProbe, probes, sleeps,
                   toolVars>>

\* EnsurePoll with the return of line 77 lost: the loop goes on after a
\* check that saw the engine available.
EnsurePollNoReturn ==
    /\ gpc = "wait"
    /\ i < PollLimit
    /\ sleeps' = sleeps + 1
    /\ \E resp \in ProbeResponses :
         /\ lastProbe' = resp
         /\ probes' = probes + 1
         /\ i' = i + 1
         /\ IF i + 1 = PollLimit
              THEN /\ gpc' = "returned"
                   /\ log' = Append(log, "not_responding_yet")
              ELSE /\ gpc' = "wait"
                   /\ log' = IF is_engine_running(resp)
                             THEN Append(log, "started_successfully") ELSE log
    /\ UNCHANGED <<AUTO_START_ENGINE, firstProbe, starts, startResult, launches,
                   toolVars>>

\* ensure_engine_running(), lines 73-78: one pass of the readiness loop,
\* with the diagnostic after the loop when this was its last pass.
EnsurePoll ==
    /\ gpc = "wait"
    /\ i < PollLimit
    /\ sleeps' = sleeps + 1
    /\ \E resp \in ProbeResponses :
         /\ lastProbe' = resp
         /\ probes' = probes + 1
         /\ IF is_engine_running(resp)
              THEN /\ gpc' = "returned"
                   /\ i' = i
                   /\ log' = Append(log, "started_successfully")
              ELSE /\ i' = i + 1
                   /\ IF i + 1 = PollLimit
                        THEN /\ gpc' = "returned"
                             /\ log' = Append(log, "not_responding_yet")
                        ELSE /\ gpc' = "wait"
                             /\ log' = log
    /\ UNCHANGED <<AUTO_START_ENGINE, firstProbe, starts, startResult, launches,
                   toolVars>>

\* __main__, line 302: mcp.run() once ensure_engine_running() has returned.
McpRun ==
    /\ gpc = "returned"
    /\ gpc' = "serving"
    /\ UNCHANGED <<AUTO_START_ENGINE, i, firstProbe, lastProbe, probes, starts,
                   startResult, launches, sleeps, log,
                   toolVars>>

-----------------------------------------------------------------------------
(* Strings and paths (pathlib.PurePosixPath)                               *)

Lower(c) ==
    CASE c = "W" -> "w"
      [] c = "A" -> "a"
      [] c = "V" -> "v"
      [] OTHER   -> c

\* str.lower()
lower(s) == [k \in 1..Len(s) |-> Lower(s[k])]

\* str.rfind(c), 1-based; 0 when c does not occur.
RFind(s, c) ==
    LET hits == {k \in 1..Len(s) : s[k] = c}
    IN IF hits = {} THEN 0 ELSE CHOOSE k \in hits : \A h \in hits : h <= k

RECURSIVE Split(_)
\* s.split("/")
Split(s) ==
    LET cut == {k \in 1..Len(s) : s[k] = "/"}
    IN IF cut = {} THEN <<s>>
       ELSE LET k == CHOOSE c \in cut : \A d \in cut : c <= d
            IN <<SubSeq(s, 1, k - 1)>> \o Split(SubSeq(s, k + 1, Len(s)))

RECURSIVE Components(_)
\* The components pathlib keeps: empty ones and "." are dropped.
Components(parts) ==
    IF parts = <<>> THEN <<>>
    ELSE IF Head(parts) = <<>> \/ Head(parts) = <<".">>
           THEN Components(Tail(parts))
           ELSE <<Head(parts)>> \o Components(Tail(parts))

StartsWith(s, n) == Len(s) >= n /\ \A k \in 1..n : s[k] = "/"

\* Path(s): the root ("", "/" or, for exactly two leading slashes, "//")
\* and the components.
Path(s) ==
    [root  |-> IF StartsWith(s, 2) /\ ~StartsWith(s, 3) THEN <<"/", "/">>
               ELSE IF StartsWith(s, 1) THEN <<"/">>
               ELSE <<>>,
     parts |-> Components(Split(s))]

RECURSIVE Join(_)
Join(parts) ==
    IF parts = <<>> THEN <<>>
    ELSE IF Len(parts) = 1 THEN Head(parts)
    ELSE Head(parts) \o <<"/">> \o Join(Tail(parts))

\* str(path)
PathStr(p) ==
    IF p.root = <<>> /\ p.parts = <<>> THEN <<".">>
    ELSE p.root \o Join(p.parts)

\* path.name
PathName(p) == IF p.parts = <<>> THEN <<>> ELSE p.parts[Len(p.parts)]

\* path.parent
PathParent(p) ==
    IF p.parts = <<>> THEN p
    ELSE [p EXCEPT !.parts = SubSeq(p.parts, 1, Len(p.parts) - 1)]

\* path.suffix: from the last dot of the name, unless that dot is the
\* first or the last character of the name.
PathSuffix(p) ==
    LET name == PathName(p)
        k    == RFind(name, ".")
    IN IF 1 < k /\ k < Len(name) THEN SubSeq(name, k, Len(name)) ELSE <<>>

DotWav == <<".", "w", "a", "v">>

\* path.with_suffix(suffix); raises ValueError on an empty name.
HasName(p) == PathName(p) # <<>>

with_suffix(p, suffix) ==
    LET name == PathName(p)
        old  == PathSuffix(p)
        new  == IF old = <<>> THEN name \o suffix
                ELSE SubSeq(name, 1, Len(name) - Len(old)) \o suffix
    IN [p EXCEPT !.parts[Len(p.parts)] = new]

\* save_audio, line 161: does the path already carry the .wav extension?
IsWav(p) == lower(PathSuffix(p)) = DotWav

\* save_audio, lines 160-162.  [ok, path]; ok is FALSE when with_suffix
\* raises.
ResolveOutput(output_path) ==
    LET p == Path(output_path)
    IN IF IsWav(p) THEN [ok |-> TRUE, path |-> p]
       ELSE IF HasName(p) THEN [ok |-> TRUE, path |-> with_suffix(p, DotWav)]
       ELSE [ok |-> FALSE, path |-> p]

-----------------------------------------------------------------------------
(* Inputs of the tool handlers and answers of the outside world            *)

Chars(n) == [k \in 1..n |-> "t"]
\* Texts shorter and longer than the preview of the success message.
Texts == {Chars(1), Chars(PreviewLen + 1)}

Speakers == {None, Some(3)}
SpeedValues == {None, Some(SpeedMin - 1), Some(SpeedMin), Some(SpeedMax),
                Some(SpeedMax + 1)}
PitchValues == {None, Some(PitchMin - 1), Some(PitchMin), Some(PitchMax),
                Some(PitchMax + 1)}
IntonationValues == {None, Some(IntonationMin - 1), Some(IntonationMax),
                     Some(IntonationMax + 1)}
VolumeValues == {None, Some(VolumeMin - 1), Some(VolumeMin),
                 Some(VolumeMax + 1)}

OutputPaths ==
    { <<>>,                                            \* ""
      <<"/">>,                                         \* "/"
      <<"c", ".", "w", "a", "v">>,                     \* "c.wav"
      <<"c", ".", "W", "A", "V">>,                     \* "c.WAV"
      <<"x", "/", "c", ".", "W", "a", "v">>,           \* "x/c.Wav"
      <<"x", "/", "y", "/", "c">>,                     \* "x/y/c"
      <<"/", "x", "/", "c", ".", "m">>,                \* "/x/c.m"
      <<"c", ".", "w", "a", "v", ".", "m">>,           \* "c.wav.m"
      <<".", "w", "a", "v">>,                          \* ".wav"
      <<"x", "/", "/", ".", "/", "c", ".">> }          \* "x//./c."

TransportErrors == {"ConnectError", "ConnectTimeout", "ReadTimeout"}
Statuses == {200, 404, 500}

\* Query objects the engine may return for POST /audio_query.
EngineQueries ==
    { [speedScale |-> 100, pitchScale |-> 0, intonationScale |-> 100,
       volumeScale |-> 100, kana |-> "k1"],
      [speedScale |-> 120, pitchScale |-> 5, intonationScale |-> 90,
       volumeScale |-> 80, kana |-> "k2"] }
NoQuery == [speedScale |-> 0, pitchScale |-> 0, intonationScale |-> 0,
            volumeScale |-> 0, kana |-> ""]
\* Bodies of an audio_query response: a JSON object, a JSON array, or
\* something that is not JSON.
QueryBodies ==
    {[kind |-> "dict", q |-> q] : q \in EngineQueries}
    \cup {[kind |-> "list", q |-> NoQuery], [kind |-> "invalid", q |-> NoQuery]}

AudioPayloads == {"wavA", "wavB"}

\* Speaker catalogs the engine may return for GET /speakers.  A speaker
\* is [name, styles]; name is None when the key is missing (KeyError),
\* styles is None when the key is missing (speaker.get("styles", [])).
Style(name, id) == [name |-> name, id |-> id]
Catalogs ==
    { <<>>,
      << [name |-> Some("A"), styles |-> Some(<<Style("n", 3), Style("s", 1)>>)],
         [name |-> Some("B"), styles |-> None] >>,
      << [name |-> None, styles |-> Some(<<Style("n", 2)>>)] >> }
SpeakerBodies ==
    {[kind |-> "json", catalog |-> c] : c \in Catalogs}
    \cup {[kind |-> "invalid", catalog |-> <<>>]}

-----------------------------------------------------------------------------
(* Result strings.  A result is a record whose kind names the message and  *)
(* whose other fields are the values the message interpolates.             *)

NoResult == [kind |-> "none"]
RangeMsg(field, value) == [kind |-> "range_error", field |-> field, value |-> value]
ConnectMsg == [kind |-> "connect_error", url |-> VOICEVOX_URL]
ApiMsg(status) == [kind |-> "api_error", status |-> status]
PermissionMsg(p) == [kind |-> "permission_error", path |-> PathStr(p)]
OtherMsg(e) == [kind |-> "other_error", type |-> e.type]
PlayerMissingMsg == [kind |-> "ffplay_not_found"]
PlaybackFailedMsg(code) == [kind |-> "playback_failed", code |-> code]
SavedMsg(p) == [kind |-> "saved", path |-> PathStr(p)]
PlayedMsg(text) ==
    [kind |-> "played",
     preview |-> SubSeq(text, 1, IF Len(text) < PreviewLen THEN Len(text) ELSE PreviewLen),
     ellipsis |-> Len(text) > PreviewLen]
SpeakersMsg(lines) == [kind |-> "speakers", lines |-> lines]
\* Not a result string: the exception left the handler.
Escaped(e) == [kind |-> "exception", type |-> e.type]

\* The except clauses of list_speakers, in order.
ListExcept(e) ==
    IF IsInstance(e.type, "ConnectError") THEN ConnectMsg
    ELSE IF IsInstance(e.type, "HTTPStatusError") THEN ApiMsg(e.info)
    ELSE OtherMsg(e)

\* The except clauses of save_audio, in order.
SaveExcept(e, p) ==
    IF IsInstance(e.type, "ConnectError") THEN ConnectMsg
    ELSE IF IsInstance(e.type, "HTTPStatusError") THEN ApiMsg(e.info)
    ELSE IF IsInstance(e.type, "PermissionError") THEN PermissionMsg(p)
    ELSE OtherMsg(e)

\* The except clauses of speak_text, in order.
SpeakExcept(e) ==
    IF IsInstance(e.type, "ConnectError") THEN ConnectMsg
    ELSE IF IsInstance(e.type, "HTTPStatusError") THEN ApiMsg(e.info)
    ELSE IF IsInstance(e.type, "FileNotFoundError") THEN PlayerMissingMsg
    ELSE IF IsInstance(e.type, "CalledProcessError") THEN PlaybackFailedMsg(e.info)
    ELSE OtherMsg(e)

\* The except clauses of the handler that is running.
Except(e) ==
    IF tool = "save_audio" THEN SaveExcept(e, output_file) ELSE SpeakExcept(e)

\* response.raise_for_status(): only a 2xx status passes.
IsSuccess(status) == 200 <= status /\ status < 300

-----------------------------------------------------------------------------
(* Parameter handling common to save_audio and speak_text                  *)

Default(opt, d) == IF opt = None THEN d ELSE opt[1]

\* Lines 139-147 / 228-236.
Defaults(speaker, speed, pitch, intonation, volume) ==
    [speaker    |-> Default(speaker, SPEAKER_ID),
     speed      |-> Default(speed, 100),
     pitch      |-> Default(pitch, 0),
     intonation |-> Default(intonation, 100),
     volume     |-> Default(volume, 100)]

InRange(lo, v, hi) == lo <= v /\ v <= hi

\* Validate with the check of volume forgotten.
ValidateNoVolume(a) ==
    IF ~InRange(SpeedMin, a.speed, SpeedMax) THEN RangeMsg("speed", a.speed)
    ELSE IF ~InRange(PitchMin, a.pitch, PitchMax) THEN RangeMsg("pitch", a.pitch)
    ELSE IF ~InRange(IntonationMin, a.intonation, IntonationMax)
        THEN RangeMsg("intonation", a.intonation)
    ELSE NoResult

\* Lines 149-157 / 238-246: the message of the first check that fails,
\* NoResult when every check passes.
Validate(a) ==
    IF ~InRange(SpeedMin, a.speed, SpeedMax) THEN RangeMsg("speed", a.speed)
    ELSE IF ~InRange(PitchMin, a.pitch, PitchMax) THEN RangeMsg("pitch", a.pitch)
    ELSE IF ~InRange(IntonationMin, a.intonation, IntonationMax)
        THEN RangeMsg("intonation", a.intonation)
    ELSE IF ~InRange(VolumeMin, a.volume, VolumeMax) THEN RangeMsg("volume", a.volume)
    ELSE NoResult

\* ApplySettings with the assignment of volumeScale forgotten.
ApplySettingsNoVolume(q, a) ==
    [q EXCEPT !.speedScale = a.speed, !.pitchScale = a.pitch,
              !.intonationScale = a.intonation]

\* Lines 175-178 / 259-262.
ApplySettings(q, a) ==
    [q EXCEPT !.speedScale = a.speed, !.pitchScale = a.pitch,
              !.intonationScale = a.intonation, !.volumeScale = a.volume]

QueryRequest(a) ==
    [endpoint |-> "audio_query",
     params   |-> [text |-> a.text, speaker |-> a.speaker],
     json     |-> <<>>]

SynthesisRequest(a, q) ==
    [endpoint |-> "synthesis",
     params   |-> [speaker |-> a.speaker],
     json     |-> <<q>>]

-----------------------------------------------------------------------------
(* list_speakers *)

Args(text, output_path, d) ==
    [text |-> text, output_path |-> output_path, speaker |-> d.speaker,
     speed |-> d.speed, pitch |-> d.pitch, intonation |-> d.intonation,
     volume |-> d.volume]
NoArgs == Args(<<>>, <<>>, Defaults(None, None, None, None, None))
NoPath == Path(<<>>)

\* The runtime started by mcp.run() dispatches a call to a handler.
Serving == gpc = "serving" /\ tpc = "idle"

RECURSIVE StyleLines(_, _)
\* Lines 99-102: one line per style of a speaker.
StyleLines(name, styles) ==
    IF styles = <<>> THEN <<>>
    ELSE <<[name |-> name, style |-> Head(styles).name, id |-> Head(styles).id]>>
         \o StyleLines(name, Tail(styles))

RECURSIVE SpeakerLines(_)
\* Lines 95-102, for a catalog in which every speaker has a name.
SpeakerLines(speakers) ==
    IF speakers = <<>> THEN <<>>
    ELSE StyleLines(Head(speakers).name[1], Default(Head(speakers).styles, <<>>))
         \o SpeakerLines(Tail(speakers))

\* Line 97 raises KeyError at a speaker without a name.
MissingName(speakers) == \E k \in 1..Len(speakers) : speakers[k].name = None

Response(e, status, q) == [exc |-> e, status |-> status, q |-> q]

\* An exception raised by operation at, inside the try block: the matching
\* except clause returns its message.
Raise(e, at) ==
    /\ tpc' = "done"
    /\ raised' = e
    /\ raisedAt' = at
    /\ result' = Except(e)

\* The handler goes on to position next.
Goto(next) ==
    /\ tpc' = next
    /\ UNCHANGED <<raised, raisedAt, result>>

\* Lines 89-91: the handler sends GET /speakers.
ListSpeakersCall ==
    /\ Serving
    /\ tpc' = "speakers_wait"
    /\ tool' = "list_speakers"
    /\ requests' = <<[endpoint |-> "speakers", params |-> <<>>, json |-> <<>>]>>
    /\ UNCHANGED <<args, output_file, responses, audio_query, audio_data,
                   raised, raisedAt, result, written, dirs, tempFiles,
                   temp_path, tmpSeq, players, startupVars>>

\* The exception, if any, of lines 92-102 for a response that arrived.
ListFailure(status, body) ==
    IF ~IsSuccess(status) THEN Exc("HTTPStatusError", status)
    ELSE IF body.kind = "invalid" THEN Exc("JSONDecodeError", 0)
    ELSE IF MissingName(body.catalog) THEN Exc("KeyError", 0)
    ELSE NoExc

\* Lines 91-111: the answer to GET /speakers and the rest of the handler.
ListSpeakersResponse ==
    /\ tpc = "speakers_wait"
    /\ tpc' = "done"
    /\ \/ \E t \in TransportErrors :
            /\ responses' = Append(responses, Response(t, 0, NoQuery))
            /\ raised' = Exc(t, 0)
            /\ raisedAt' = "speakers"
            /\ result' = ListExcept(Exc(t, 0))
       \/ \E status \in Statuses, body \in SpeakerBodies :
            LET e == ListFailure(status, body) IN
            /\ responses' = Append(responses, Response("none", status, NoQuery))
            /\ raised' = e
            /\ raisedAt' = IF e.type = "none" THEN "none" ELSE "speakers"
            /\ result' = IF e.type = "none" THEN SpeakersMsg(SpeakerLines(body.catalog))
                         ELSE ListExcept(e)
    /\ UNCHANGED <<tool, args, output_file, requests, audio_query, audio_data,
                   written, dirs, tempFiles, temp_path, tmpSeq, players,
                   startupVars>>

-----------------------------------------------------------------------------
(* Steps common to save_audio and speak_text *)

\* Lines 167-185 / 251-269: the answer to POST /audio_query; on success
\* the settings are applied and POST /synthesis is sent.
AudioQueryStep(handler) ==
    /\ tpc = "query_wait"
    /\ tool = handler
    /\ \/ \E t \in TransportErrors :
            /\ responses' = Append(responses, Response(t, 0, NoQuery))
            /\ Raise(Exc(t, 0), "audio_query")
            /\ UNCHANGED <<audio_query, requests>>
       \/ \E status \in Statuses, body \in QueryBodies :
            /\ responses' = Append(responses,
                 Response("none", status, IF IsSuccess(status) THEN body.q ELSE NoQuery))
            /\ IF ~IsSuccess(status)
                 THEN Raise(Exc("HTTPStatusError", status), "audio_query")
                      /\ UNCHANGED <<audio_query, requests>>
               ELSE IF body.kind = "invalid"
                 THEN Raise(Exc("JSONDecodeError", 0), "audio_query")
                      /\ UNCHANGED <<audio_query, requests>>
               ELSE IF body.kind = "list"
                 THEN Raise(Exc("TypeError", 0), "audio_query")
                      /\ UNCHANGED <<audio_query, requests>>
               ELSE /\ audio_query' = ApplySettings(body.q, args)
                    /\ requests' = Append(requests, SynthesisRequest(args, audio_query'))
                    /\ Goto("synthesis_wait")
    /\ UNCHANGED <<tool, args, output_file, audio_data, written, dirs,
                   tempFiles, temp_path, tmpSeq, players, startupVars>>

\* Lines 181-187 / 265-271: the answer to POST /synthesis.
SynthesisStep(handler, next) ==
    /\ tpc = "synthesis_wait"
    /\ tool = handler
    /\ \/ \E t \in TransportErrors :
            /\ responses' = Append(responses, Response(t, 0, NoQuery))
            /\ Raise(Exc(t, 0), "synthesis")
            /\ audio_data' = audio_data
       \/ \E status \in Statuses, data \in AudioPayloads :
            /\ responses' = Append(responses, Response("none", status, NoQuery))
            /\ IF ~IsSuccess(status)
                 THEN Raise(Exc("HTTPStatusError", status), "synthesis")
                      /\ audio_data' = audio_data
               ELSE /\ audio_data' = data
                    /\ Goto(next)
    /\ UNCHANGED <<tool, args, output_file, requests, audio_query, written,
                   dirs, tempFiles, temp_path, tmpSeq, players, startupVars>>

-----------------------------------------------------------------------------
(* save_audio *)

\* Lines 139-170: defaults, validation, path resolution and the sending
\* of POST /audio_query.  The ValueError of with_suffix is raised before
\* the try block and leaves the handler.
SaveAudioCall ==
    /\ Serving
    /\ \E text \in Texts, output_path \in OutputPaths, speaker \in Speakers,
          speed \in SpeedValues, pitch \in PitchValues,
          intonation \in IntonationValues, volume \in VolumeValues :
         LET a == Args(text, output_path,
                       Defaults(speaker, speed, pitch, intonation, volume))
             v == Validate(a)
             r == ResolveOutput(output_path)
         IN /\ args' = a
            /\ IF v.kind # "none"
                 THEN /\ tpc' = "done"
                      /\ result' = v
                      /\ UNCHANGED <<output_file, requests, raised, raisedAt>>
               ELSE IF ~r.ok
                 THEN /\ tpc' = "done"
                      /\ raised' = Exc("ValueError", 0)
                      /\ raisedAt' = "with_suffix"
                      /\ result' = Escaped(Exc("ValueError", 0))
                      /\ UNCHANGED <<output_file, requests>>
               ELSE /\ output_file' = r.path
                    /\ requests' = <<QueryRequest(a)>>
                    /\ Goto("query_wait")
    /\ tool' = "save_audio"
    /\ UNCHANGED <<responses, audio_query, audio_data, written, dirs,
                   tempFiles, temp_path, tmpSeq, players, startupVars>>

SaveAudioQuery == AudioQueryStep("save_audio")

SaveAudioSynthesis == SynthesisStep("save_audio", "store")

MkdirOutcomes == {"ok", "PermissionError", "FileExistsError"}
\* write_bytes: the open may fail (PermissionError, IsADirectoryError) and
\* the write may fail after the file was truncated (OSError).
WriteOutcomes == {"ok", "PermissionError", "IsADirectoryError", "OSError"}

\* Lines 189-202: mkdir of the parent, write_bytes and the return.
SaveAudioStore ==
    /\ tpc = "store"
    /\ \E mk \in MkdirOutcomes, wr \in WriteOutcomes :
         IF mk # "ok"
           THEN /\ Raise(Exc(mk, 0), "mkdir")
                /\ UNCHANGED <<dirs, written>>
         ELSE /\ dirs' = dirs \cup {PathStr(PathParent(output_file))}
              /\ CASE wr = "ok" ->
                        /\ written' = written \cup
                             {[path |-> PathStr(output_file), data |-> audio_data]}
                        /\ tpc' = "done"
                        /\ result' = SavedMsg(output_file)
                        /\ UNCHANGED <<raised, raisedAt>>
                   [] wr = "OSError" ->
                        /\ written' = written \cup
                             {[path |-> PathStr(output_file), data |-> "truncated"]}
                        /\ Raise(Exc(wr, 0), "write")
                   [] OTHER ->
                        /\ written' = written
                        /\ Raise(Exc(wr, 0), "write")
    /\ UNCHANGED <<tool, args, output_file, requests, responses, audio_query,
                   audio_data, tempFiles, temp_path, tmpSeq, players,
                   startupVars>>

-----------------------------------------------------------------------------
(* speak_text *)

\* Lines 228-254: defaults, validation and the sending of POST /audio_query.
SpeakTextCall ==
    /\ Serving
    /\ tmpSeq < MaxTemp
    /\ \E text \in Texts, speaker \in Speakers,
          speed \in SpeedValues, pitch \in PitchValues,
          intonation \in IntonationValues, volume \in VolumeValues :
         LET a == Args(text, <<>>,
                       Defaults(speaker, speed, pitch, intonation, volume))
             v == Validate(a)
         IN /\ args' = a
            /\ IF v.kind # "none"
                 THEN /\ tpc' = "done"
                      /\ result' = v
                      /\ UNCHANGED <<requests, raised, raisedAt>>
               ELSE /\ requests' = <<QueryRequest(a)>>
                    /\ Goto("query_wait")
    /\ tool' = "speak_text"
    /\ UNCHANGED <<output_file, responses, audio_query, audio_data, written,
                   dirs, tempFiles, temp_path, tmpSeq, players, startupVars>>

SpeakTextQuery == AudioQueryStep("speak_text")

SpeakTextSynthesis == SynthesisStep("speak_text", "temp")

\* NamedTemporaryFile(): FileNotFoundError when no temporary directory is
\* usable, PermissionError when the file may not be created.
CreateOutcomes == {"ok", "FileNotFoundError", "PermissionError"}
TempWriteOutcomes == {"ok", "OSError"}

\* Lines 274-276: the with block that creates the temporary file (kept on
\* close: delete=False) and writes the audio into it.  temp_path stands
\* for f.name from the creation on.
SpeakTextTemp ==
    /\ tpc = "temp"
    /\ \E cr \in CreateOutcomes, wr \in TempWriteOutcomes :
         IF cr # "ok"
           THEN /\ Raise(Exc(cr, 0), "tmp_create")
                /\ UNCHANGED <<tempFiles, temp_path, tmpSeq>>
         ELSE /\ tmpSeq' = tmpSeq + 1
              /\ temp_path' = tmpSeq + 1
              /\ tempFiles' = tempFiles \cup {tmpSeq + 1}
              /\ IF wr # "ok"
                   THEN Raise(Exc(wr, 0), "tmp_write")
                   ELSE Goto("play")
    /\ UNCHANGED <<tool, args, output_file, requests, responses, audio_query,
                   audio_data, written, dirs, players, startupVars>>

PlayerExits == {0, 1, 2}
PlayerErrors == {"FileNotFoundError", "PermissionError"}
\* os.unlink: FileNotFoundError when the file is already gone.
UnlinkOutcomes == {"ok", "FileNotFoundError", "PermissionError"}

\* subprocess.run(..., check=True): the exception it raises, NoExc on exit 0.
RunResult(code) == IF code = 0 THEN NoExc ELSE Exc("CalledProcessError", code)

\* Lines 278-297: the player, os.unlink in the finally clause, and the
\* return.  An exception of os.unlink replaces the one of the player.
FinishPlay(runExc, ul) ==
    /\ players' = players + 1
    /\ tempFiles' = IF ul = "PermissionError" THEN tempFiles
                    ELSE tempFiles \ {temp_path}
    /\ IF ul # "ok" THEN Raise(Exc(ul, 0), "unlink")
       ELSE IF runExc.type # "none" THEN Raise(runExc, "player")
       ELSE /\ tpc' = "done"
            /\ result' = PlayedMsg(args.text)
            /\ UNCHANGED <<raised, raisedAt>>

SpeakTextPlay ==
    /\ tpc = "play"
    /\ \E ul \in UnlinkOutcomes :
         \/ \E code \in PlayerExits : FinishPlay(RunResult(code), ul)
         \/ \E t \in PlayerErrors : FinishPlay(Exc(t, 0), ul)
    /\ UNCHANGED <<tool, args, output_file, requests, responses, audio_query,
                   audio_data, written, dirs, temp_path, tmpSeq, startupVars>>

-----------------------------------------------------------------------------
(* The tool-call runtime *)

\* The runtime takes the handler's result (or its exception); the
\* invocation's locals and the record of its effects are dropped.
ToolReturn ==
    /\ tpc = "done"
    /\ tpc' = "idle"
    /\ tool' = "none"
    /\ args' = NoArgs
    /\ output_file' = NoPath
    /\ requests' = <<>>
    /\ responses' = <<>>
    /\ audio_query' = NoQuery
    /\ audio_data' = ""
    /\ raised' = NoExc
    /\ raisedAt' = "none"
    /\ result' = NoResult
    /\ written' = {}
    /\ dirs' = {}
    /\ temp_path' = 0
    /\ players' = 0
    /\ UNCHANGED <<tempFiles, tmpSeq, startupVars>>

-----------------------------------------------------------------------------
(* Specifications *)

ToolsIdle ==
    /\ tpc = "idle"
    /\ tool = "none"
    /\ args = NoArgs
    /\ output_file = NoPath
    /\ requests = <<>>
    /\ responses = <<>>
    /\ audio_query = NoQuery
    /\ audio_data = ""
    /\ raised = NoExc
    /\ raisedAt = "none"
    /\ result = NoResult
    /\ written = {}
    /\ dirs = {}
    /\ tempFiles = {}
    /\ temp_path = 0
    /\ tmpSeq = 0
    /\ players = 0

\* Process start (lines 300-302).
StartupInit ==
    /\ AUTO_START_ENGINE \in BOOLEAN
    /\ gpc = "start"
    /\ i = 0
    /\ firstProbe = "none"
    /\ lastProbe = "none"
    /\ probes = 0
    /\ starts = 0
    /\ startResult = "none"
    /\ launches = 0
    /\ sleeps = 0
    /\ log = <<>>
    /\ ToolsIdle

StartupNext ==
    \/ EnsureDisabled
    \/ EnsureFirstProbe
    \/ EnsureStartEngine
    \/ EnsurePoll
    \/ McpRun

\* The process runs straight through ensure_engine_running and mcp.run():
\* every step that can be taken is taken.
StartupSpec == StartupInit /\ [][StartupNext]_vars /\ WF_vars(StartupNext)

\* The tool-call runtime is serving (auto-start disabled, mcp.run() reached).
Init ==
    /\ AUTO_START_ENGINE = FALSE
    /\ gpc = "serving"
    /\ i = 0
    /\ firstProbe = "none"
    /\ lastProbe = "none"
    /\ probes = 0
    /\ starts = 0
    /\ startResult = "none"
    /\ launches = 0
    /\ sleeps = 0
    /\ log = <<>>
    /\ ToolsIdle

Next ==
    \/ ListSpeakersCall
    \/ ListSpeakersResponse
    \/ SaveAudioCall
    \/ SaveAudioQuery
    \/ SaveAudioSynthesis
    \/ SaveAudioStore
    \/ SpeakTextCall
    \/ SpeakTextQuery
    \/ SpeakTextSynthesis
    \/ SpeakTextTemp
    \/ SpeakTextPlay
    \/ ToolReturn

Spec == Init /\ [][Next]_vars

-----------------------------------------------------------------------------
(* Properties *)

Synthesizing == tool \in {"save_audio", "speak_text"}
Returned == tpc = "done"

\* C1: every invocation of a tool handler ends with a string result; no
\* exception leaves the handler.
C1_NoExceptionEscapes == Returned => result.kind # "exception"

\* C2: once a speak_text invocation has returned, the temporary file it
\* created is gone, whatever happened after the creation.
C2_TempFileDeleted == tpc \in {"done", "idle"} => tempFiles = {}

\* The fields of the arguments that lie outside their domains.
OutOfRange(a) ==
    {f \in {"speed"} : a.speed < SpeedMin \/ a.speed > SpeedMax}
    \cup {f \in {"pitch"} : a.pitch < PitchMin \/ a.pitch > PitchMax}
    \cup {f \in {"intonation"} :
            a.intonation < IntonationMin \/ a.intonation > IntonationMax}
    \cup {f \in {"volume"} : a.volume < VolumeMin \/ a.volume > VolumeMax}

NoEffect ==
    /\ requests = <<>>
    /\ written = {}
    /\ dirs = {}
    /\ players = 0
    /\ temp_path = 0

\* The first field, in the order speed, pitch, intonation, volume.
FirstOf(fields) ==
    IF "speed" \in fields THEN "speed"
    ELSE IF "pitch" \in fields THEN "pitch"
    ELSE IF "intonation" \in fields THEN "intonation"
    ELSE "volume"

\* C3 as stated: the error names every field that is out of range, and
\* nothing was requested, written or started.
C3_EveryFieldNamed ==
    (Returned /\ Synthesizing /\ OutOfRange(args) # {}) =>
        /\ result.kind = "range_error"
        /\ \A f \in OutOfRange(args) : result.field = f /\ result.value = args[f]
        /\ NoEffect

\* C3 amended: with a field out of range the call returns an error that
\* names the first such field (in the order speed, pitch, intonation,
\* volume) and its value, and nothing was requested, written or started.
C3_FirstFieldNamed ==
    (Returned /\ Synthesizing /\ OutOfRange(args) # {}) =>
        /\ result.kind = "range_error"
        /\ result.field = FirstOf(OutOfRange(args))
        /\ result.value = args[result.field]
        /\ NoEffect

C3_Witness ==
    /\ Returned
    /\ tool = "save_audio"
    /\ OutOfRange(args) = {"pitch", "volume"}
    /\ result.kind = "range_error"
    /\ result.field = "pitch"

\* C4: a remote call that could not establish its connection (refused or
\* timed out) is reported as a connection failure naming the engine URL.
C4_UnreachableReported ==
    (Returned /\ raisedAt \in {"speakers", "audio_query", "synthesis"}
              /\ raised.type \in {"ConnectError", "ConnectTimeout"}) =>
        /\ result.kind = "connect_error"
        /\ result.url = VOICEVOX_URL

Succeeded(r) == r.exc = "none" /\ 200 <= r.status /\ r.status <= 299

EnsureFinished == gpc \in {"returned", "serving", "crashed"}

C6_Polling ==
    /\ startResult = "True" => probes = sleeps + 1 /\ sleeps <= PollLimit
    /\ lastProbe = "200" => gpc \in {"returned", "serving"}
    /\ (startResult = "True" /\ gpc = "wait") => sleeps < PollLimit
    /\ (startResult = "True" /\ gpc \in {"returned", "serving"} /\ lastProbe # "200") =>
          sleeps = PollLimit /\ log[Len(log)] = "not_responding_yet"
    /\ (\E k \in 1..Len(log) : log[k] = "not_responding_yet") =>
          sleeps = PollLimit /\ lastProbe # "200"
    /\ startResult \in {"False", "raise"} => probes = 1 /\ sleeps = 0

\* C6: after a successful launch there is one availability check after each
\* one-second wait, at most 30 of them; the first check that sees the
\* engine available ends ensure_engine_running at once; after the 30th
\* failed check it ends with the "not responding yet" diagnostic; a failed
\* launch is followed by no check; and ensure_engine_running always ends.
C6_PollingTerminates == [](C6_Polling) /\ <>EnsureFinished

C6_Witness ==
    /\ gpc = "returned"
    /\ startResult = "True"
    /\ sleeps = PollLimit
    /\ probes = PollLimit + 1
    /\ log[Len(log)] = "not_responding_yet"

\* C7: whatever the availability check and the launch do,
\* ensure_engine_running returns and mcp.run() is reached.
C7_StartupNeverFatal == gpc # "crashed"

\* C8: with auto-start disabled there is no availability check and no
\* launcher or subprocess call; with auto-start enabled and the first
\* check succeeding there is that one check and no launcher call; the
\* launcher is invoked at most once, and only with auto-start enabled after
\* a failed first check.
C8_LauncherUse ==
    /\ ~AUTO_START_ENGINE => probes = 0 /\ starts = 0 /\ launches = 0 /\ sleeps = 0
    /\ (AUTO_START_ENGINE /\ firstProbe = "200") =>
          probes = 1 /\ starts = 0 /\ launches = 0
    /\ starts <= 1
    /\ launches <= starts
    /\ starts = 1 => AUTO_START_ENGINE /\ firstProbe \notin {"none", "200"}

C8_Witness ==
    /\ AUTO_START_ENGINE
    /\ firstProbe = "200"
    /\ gpc = "serving"
    /\ probes = 1

\* The resolution of the output path as the claim words it, on the final
\* component of the path.
EndsWithWav(name) ==
    /\ Len(name) > 4
    /\ lower(SubSeq(name, Len(name) - 3, Len(name))) = <<".", "w", "a", "v">>

\* The positions of name where a final extension starts.
ExtensionAt(name) ==
    {k \in 2..(Len(name) - 1) :
        name[k] = "." /\ \A j \in (k + 1)..Len(name) : name[j] # "."}

ResolvedAsClaimed(given, resolved) ==
    LET name  == PathName(given)
        rname == PathName(resolved)
        base  == SubSeq(rname, 1, Len(rname) - 4)
    IN IF EndsWithWav(name) THEN resolved = given
       ELSE /\ Len(rname) >= 4
            /\ SubSeq(rname, Len(rname) - 3, Len(rname)) = <<".", "w", "a", "v">>
            /\ IF ExtensionAt(name) = {} THEN base = name
               ELSE \E k \in ExtensionAt(name) : base = SubSeq(name, 1, k - 1)
            /\ resolved.root = given.root
            /\ Len(resolved.parts) = Len(given.parts)
            /\ \A k \in 1..(Len(given.parts) - 1) : resolved.parts[k] = given.parts[k]

PastValidation == tool = "save_audio" /\ result.kind # "range_error"

ResolvedPathUsed ==
    /\ \A w \in written : w.path = PathStr(output_file)
    /\ result.kind = "saved" =>
         /\ result.path = PathStr(output_file)
         /\ written = {[path |-> PathStr(output_file), data |-> audio_data]}
    /\ result.kind = "permission_error" => result.path = PathStr(output_file)

\* C9: for every output_path save_audio resolves a path, the given one
\* when its extension is .wav in any case, else the given one with the
\* extension replaced by (or extended with) .wav; that path is the one
\* written and the one the messages name.
C9_EveryPathResolved ==
    PastValidation =>
        /\ result.kind # "exception"
        /\ ResolvedAsClaimed(Path(args.output_path), output_file)
        /\ ResolvedPathUsed

\* The extent of C9 in the code: the resolution is as stated for every
\* output_path that has a final component; for one that has none ("",
\* ".", "/") with_suffix raises ValueError, which leaves the handler (C1),
\* and nothing is requested or written.
C9_NamedPathResolved ==
    PastValidation =>
        IF PathName(Path(args.output_path)) = <<>>
          THEN /\ Returned
               /\ raised.type = "ValueError"
               /\ result.kind = "exception"
               /\ NoEffect
          ELSE /\ result.kind # "exception"
               /\ ResolvedAsClaimed(Path(args.output_path), output_file)
               /\ ResolvedPathUsed

\* C10: speak_text answers "player not found" only when the player
\* executable is absent and "playback failed (code)" only when the player
\* exited non-zero, with that code; a failure in creating, writing or
\* deleting the temporary file gets the catch-all message.
C10_DistinctSurfaces ==
    (Returned /\ tool = "speak_text") =>
        /\ result.kind = "ffplay_not_found" =>
             raisedAt = "player" /\ raised.type = "FileNotFoundError"
        /\ result.kind = "playback_failed" =>
             /\ raisedAt = "player"
             /\ raised.type = "CalledProcessError"
             /\ result.code = raised.info
        /\ raisedAt \in {"tmp_create", "tmp_write", "unlink"} =>
             result.kind = "other_error" /\ result.type = raised.type

=============================================================================
